---- MODULE Spec2Model ----
(***************************************************************************)
(* search_torrents_api of src/api.py as a state machine: one call of the   *)
(* coroutine, its three kinds of network request (login, search start,     *)
(* result poll), the bounded polling loop and the result shaping.          *)
(* A step of the model is the code that runs between two awaits.           *)
(***************************************************************************)
EXTENDS Integers, Sequences, FiniteSets, TLC

(* ------------------------------------------------------------------ *)
(* Program constants                                                    *)
(* ------------------------------------------------------------------ *)

SEARCH_MAX_RETRIES == 10

\* seconds slept between two attempts
SEARCH_RETRY_DELAY_SECONDS == 1

EarlyAcceptAttempt == 2

TopN == 10

HTTP_OK == 200

(* ------------------------------------------------------------------ *)
(* Bounds of the model                                                  *)
(* ------------------------------------------------------------------ *)

\* every sequence of result records up to this length is a possible page
MaxPageLen == 2

\* pages longer than TopN: patterned pages of TopN+1 .. TopN+MaxExtra records
MaxExtra == 1

(* ------------------------------------------------------------------ *)
(* Inputs: the caller's arguments and what the remote service answers   *)
(* ------------------------------------------------------------------ *)

GiB == 1024 * 1024 * 1024

\* max_size_gb values the caller passes (negative, zero, positive)
MaxSizeGbs == {-1, 0, 1}

Params ==
    [pattern : {"ubuntu"}, category : {"all"}, plugins : {"all"},
     max_size_gb : MaxSizeGbs, limit : {100}, offset : {0},
     username : {"admin"}, password : {"pw"}]

\* HTTP status codes: 200, another 2xx, a client error, a server error
StatusCodes == {200, 201, 403, 500}

Is2xx(code) == code >= 200 /\ code <= 299

\* a cookie jar is the set of cookie names it holds
CookieJars == {{}, {"SID"}}

\* Python None for the cookies variable, and a jar returned by the login
NoneCookies == [isNone |-> TRUE, jar |-> {}]

SomeCookies(jar) == [isNone |-> FALSE, jar |-> jar]

\* the value of search_result.get('id'): None when the field is absent,
\* otherwise the integer or string the service assigned
NoneId == [kind |-> "none", n |-> 0, s |-> ""]

IntId(n) == [kind |-> "int", n |-> n, s |-> ""]

StrId(s) == [kind |-> "str", n |-> 0, s |-> s]

SearchIds == {NoneId, IntId(0), IntId(7), StrId("job-7")}

\* the value of results.get('status'): None when the field is absent
NoStatus == "None"

\* "Paused" stands for any status text the code does not know
Statuses == {"Running", "Stopped", "Paused", NoStatus}

\* one record of a result page; a field may be absent
FileSizes == {0, GiB + 1}

SeederCounts == {1}

TorrentRecords ==
    [fileSize : FileSizes, nbSeeders : SeederCounts]
        \cup [fileSize : FileSizes]
        \cup [nbSeeders : SeederCounts]

RECURSIVE SeqsUpTo(_, _)
SeqsUpTo(S, n) ==
    IF n = 0 THEN {<<>>}
    ELSE LET shorter == SeqsUpTo(S, n - 1)
         IN  shorter \cup {Append(s, x) : s \in {t \in shorter : Len(t) = n - 1}, x \in S}

\* a page of n records alternating a and b
AltPage(a, b, n) == [i \in 1..n |-> IF i % 2 = 1 THEN a ELSE b]

\* a page of n records of one size with seeders 1, 2, .., n
RampPage(n) == [i \in 1..n |-> [fileSize |-> 0, nbSeeders |-> i]]

LongPages ==
    UNION {{AltPage(a, b, n) : a \in TorrentRecords, b \in TorrentRecords}
              \cup {RampPage(n)} : n \in (TopN + 1)..(TopN + MaxExtra)}

\* fifteen records of one size with seeders 1..15
FifteenPage == RampPage(TopN + 5)

Pages == SeqsUpTo(TorrentRecords, MaxPageLen) \cup LongPages \cup {FifteenPage}

\* A network call either raises (transport error) or returns a response.
TransportError == [kind |-> "raise"]

LoginResponses ==
    [kind : {"http"}, code : StatusCodes, cookies : CookieJars]
        \cup {TransportError}

\* json = FALSE: the body is not a JSON object, response.json()/.get raises
StartResponses ==
    [kind : {"http"}, code : StatusCodes, json : {TRUE}, id : SearchIds]
        \cup [kind : {"http"}, code : {200}, json : {FALSE}, id : {NoneId}]
        \cup {TransportError}

\* the pages that come with a failure status or with a status the code does
\* not know
SmallPages == {<<>>, <<[nbSeeders |-> 1]>>}

PollResponses ==
    [kind : {"http"}, code : {200}, json : {TRUE},
     status : {"Running", "Stopped"}, results : Pages]
        \cup [kind : {"http"}, code : {200}, json : {TRUE},
              status : Statuses \ {"Running", "Stopped"}, results : SmallPages]
        \cup [kind : {"http"}, code : StatusCodes \ {200}, json : {TRUE},
              status : {"Running", "Stopped"}, results : SmallPages]
        \cup [kind : {"http"}, code : {200}, json : {FALSE},
              status : {NoStatus}, results : {<<>>}]
        \cup {TransportError}

(* ------------------------------------------------------------------ *)
(* Pure helpers of the code                                             *)
(* ------------------------------------------------------------------ *)

\* truth value of a cookies object: None and an empty jar are falsy
CookiesTruthy(c) == ~c.isNone /\ c.jar # {}

\* truth value of a search id: None, 0 and "" are falsy
IdTruthy(id) ==
    CASE id.kind = "none" -> FALSE
      [] id.kind = "int"  -> id.n # 0
      [] id.kind = "str"  -> id.s # ""

\* truth value of a list
ListTruthy(l) == Len(l) > 0

\* mutant of login_to_qbittorrent: the status code is not looked at
login_IgnoringStatus(r) == SomeCookies(r.cookies)

\* login_to_qbittorrent, given the response of its one request
login_to_qbittorrent(r) ==
    IF r.code = HTTP_OK THEN SomeCookies(r.cookies) ELSE NoneCookies

\* mutant of StartRejected: only server errors are rejected
StartRejected_Only5xx(r) == r.code >= 500

\* response.status_code != 200 after the search start request
StartRejected(r) == r.code # HTTP_OK

\* mutant of PollRejected: only server errors are rejected
PollRejected_Only5xx(r) == r.code >= 500

\* response.status_code != 200 after a poll request
PollRejected(r) == r.code # HTTP_OK

\* mutant of IsStopped: the status is compared with the wrong spelling
IsStopped_Lowercase(st) == st = "stopped"

\* status == 'Stopped'
IsStopped(st) == st = "Stopped"

\* mutant of PageTorrents: the page is appended to what was held before
PageTorrents_Accumulating(old, r) == old \o r.results

\* torrents = results.get('results', []): the page replaces what was held
PageTorrents(old, r) == r.results

\* mutant of EarlyAccept: the threshold is the attempt budget, never reached
EarlyAccept_AtBudget(tor, k) == ListTruthy(tor) /\ k >= SEARCH_MAX_RETRIES

\* torrents and attempt >= 2
EarlyAccept(tor, k) == ListTruthy(tor) /\ k >= EarlyAcceptAttempt

\* mutant of ShouldSleep: no delay is ever taken
ShouldSleep_Never(k) == k < 0

\* mutant of ShouldSleep: the delay is taken after every attempt
ShouldSleep_Always(k) == k >= 0

\* attempt < SEARCH_MAX_RETRIES - 1
ShouldSleep(k) == k < SEARCH_MAX_RETRIES - 1

\* mutant of HasNextAttempt: the range holds one value too many
HasNextAttempt_OneMore(k) == k + 1 < SEARCH_MAX_RETRIES + 1

\* range(SEARCH_MAX_RETRIES) has a value after k
HasNextAttempt(k) == k + 1 < SEARCH_MAX_RETRIES

\* mutant of TimedOut: only the status Running counts as unfinished
TimedOut_OnlyRunning(tor, st) == ~ListTruthy(tor) /\ st = "Running"

\* not torrents and status != 'Stopped'
TimedOut(tor, st) == ~ListTruthy(tor) /\ st # "Stopped"

\* mutant of FileSize: a record without the field counts as a large one
FileSize_MissingIsLarge(t) ==
    IF "fileSize" \in DOMAIN t THEN t.fileSize ELSE GiB + 1

\* torrent.get('fileSize', 0)
FileSize(t) == IF "fileSize" \in DOMAIN t THEN t.fileSize ELSE 0

\* x.get('nbSeeders', 0)
NbSeeders(t) == IF "nbSeeders" \in DOMAIN t THEN t.nbSeeders ELSE 0

\* max_size_gb * 1024 * 1024 * 1024
max_size_bytes(gb) == gb * GiB

\* mutant of PassesSizeFilter: a record at the ceiling is dropped
PassesSizeFilter_Strict(t, ceiling) == FileSize(t) < ceiling

\* the condition of the list comprehension
PassesSizeFilter(t, ceiling) == FileSize(t) <= ceiling

filtered_torrents(tor, ceiling) ==
    SelectSeq(tor, LAMBDA t : PassesSizeFilter(t, ceiling))

\* mutant of InsertBySeeders: among equal keys the later record goes first
RECURSIVE InsertBySeeders_TiesReversed(_, _)
InsertBySeeders_TiesReversed(s, x) ==
    IF s = <<>> THEN <<x>>
    ELSE IF NbSeeders(Head(s)) > NbSeeders(x)
         THEN <<Head(s)>> \o InsertBySeeders_TiesReversed(Tail(s), x)
         ELSE <<x>> \o s

\* x goes before y in sorted(key=nbSeeders, reverse=True) when its key is
\* larger; equal keys keep their input order (the sort is stable)
\* insert x, which came after every record of s in the input, into sorted s
RECURSIVE InsertBySeeders(_, _)
InsertBySeeders(s, x) ==
    IF s = <<>> THEN <<x>>
    ELSE IF NbSeeders(Head(s)) >= NbSeeders(x)
         THEN <<Head(s)>> \o InsertBySeeders(Tail(s), x)
         ELSE <<x>> \o s

RECURSIVE sorted_torrents(_)
sorted_torrents(s) ==
    IF s = <<>> THEN <<>>
    ELSE InsertBySeeders(sorted_torrents(SubSeq(s, 1, Len(s) - 1)), s[Len(s)])

\* mutant of top_10: the slice keeps one record too many
top_10_OffByOne(s) == SubSeq(s, 1, IF Len(s) < TopN + 1 THEN Len(s) ELSE TopN + 1)

\* sorted_torrents[:10]
top_10(s) == SubSeq(s, 1, IF Len(s) < TopN THEN Len(s) ELSE TopN)

(* ------------------------------------------------------------------ *)
(* The values search_torrents_api returns (the dict given to json.dumps) *)
(* ------------------------------------------------------------------ *)

NotReturned == [returned |-> FALSE]

LoginFailedEnvelope == [error |-> <<"login failed, no SID">>]

StartFailedEnvelope(r) ==
    [error |-> <<"search start failed: status code", r.code>>,
     response |-> "response.text"]

NoSearchIdEnvelope(r) ==
    [error |-> <<"no search id obtained">>, response |-> r.id]

PollFailedEnvelope(r) ==
    [error |-> <<"fetching search results failed: status code", r.code>>,
     response |-> "response.text"]

TimeoutEnvelope(id, st) ==
    [error |-> <<"search timed out, no results obtained">>,
     search_id |-> id, status |-> st]

ExceptionEnvelope == [error |-> <<"error: str(e)">>]

ResultEnvelope(id, pattern, tor, gb) ==
    LET filtered == filtered_torrents(tor, max_size_bytes(gb))
    IN  [search_id |-> id,
         pattern |-> pattern,
         total_results |-> Len(tor),
         filtered_results |-> Len(filtered),
         results |-> top_10(sorted_torrents(filtered))]

\* the code after the polling loop
AfterLoop(id, pattern, tor, st, gb) ==
    IF TimedOut(tor, st) THEN TimeoutEnvelope(id, st)
    ELSE ResultEnvelope(id, pattern, tor, gb)

IsError(e) == "error" \in DOMAIN e

IsResult(e) == "total_results" \in DOMAIN e

(* ------------------------------------------------------------------ *)
(* Requests                                                             *)
(* ------------------------------------------------------------------ *)

LoginRequest(p) ==
    [endpoint |-> "auth/login",
     data |-> [username |-> p.username, password |-> p.password]]

StartRequest(p, c) ==
    [endpoint |-> "search/start",
     data |-> [pattern |-> p.pattern, category |-> p.category,
               plugins |-> p.plugins],
     cookies |-> c]

\* mutant of PollRequest: limit and offset change places
PollRequest_SwappedWindow(p, id, c) ==
    [endpoint |-> "search/results",
     data |-> [id |-> id, limit |-> p.offset, offset |-> p.limit],
     cookies |-> c]

PollRequest(p, id, c) ==
    [endpoint |-> "search/results",
     data |-> [id |-> id, limit |-> p.limit, offset |-> p.offset],
     cookies |-> c]

(* ------------------------------------------------------------------ *)
(* One call of search_torrents_api as a value: its local variables       *)
(* ------------------------------------------------------------------ *)

\* no response yet, or a step that waits for none
NoResponse == [kind |-> "none"]

\* the concurrent calls of search_torrents_api in one event loop
Ops == {1, 2}

\* what the server hands to the call op: its own cookie, job id and records
OpCookie(op) == IF op = 1 THEN "SID-1" ELSE "SID-2"

OpId(op) == IntId(6 + op)

OpRecord(op) == [fileSize |-> 0, nbSeeders |-> op]

\* the arguments of the call op
OpParams(op) ==
    [pattern |-> "ubuntu", category |-> "all", plugins |-> "all",
     limit |-> 100, offset |-> op, username |-> "admin", password |-> "pw",
     max_size_gb |-> 1]

OpLoginResponses(op) ==
    {[kind |-> "http", code |-> 200, cookies |-> {OpCookie(op)}],
     [kind |-> "http", code |-> 403, cookies |-> {}],
     TransportError}

OpStartResponses(op) ==
    {[kind |-> "http", code |-> 200, json |-> TRUE, id |-> OpId(op)],
     [kind |-> "http", code |-> 500, json |-> TRUE, id |-> NoneId]}

OpPollResponses(op) ==
    [kind : {"http"}, code : {200}, json : {TRUE},
     status : {"Running", "Stopped"}, results : {<<>>, <<OpRecord(op)>>}]
        \cup {[kind |-> "http", code |-> 500, json |-> TRUE,
               status |-> "Running", results |-> <<>>]}

\* the local variables of a call that has not run yet; sent is the latest
\* request it issued, polls and sleeps count its poll requests and delays
FrameInit(p) ==
    [pc |-> "start", params |-> p, cookies |-> NoneCookies,
     search_id |-> NoneId, attempt |-> 0, status |-> NoStatus,
     torrents |-> <<>>, ret |-> NotReturned, sent |-> NoResponse,
     polls |-> 0, sleeps |-> 0]

FrameReturn(f, e) == [f EXCEPT !.pc = "returned", !.ret = e]

\* the call starts: the login request is issued
FrameCall(f) ==
    [f EXCEPT !.pc = "await_login", !.sent = LoginRequest(f.params)]

\* the login response r arrives
FrameLogin(f, r) ==
    IF r.kind = "raise" THEN [f EXCEPT !.pc = "raised"]
    ELSE LET c == login_to_qbittorrent(r)
         IN  IF ~CookiesTruthy(c)
             THEN FrameReturn([f EXCEPT !.cookies = c], LoginFailedEnvelope)
             ELSE [f EXCEPT !.cookies = c, !.pc = "await_start",
                            !.sent = StartRequest(f.params, c)]

\* the search start response r arrives
FrameStart(f, r) ==
    IF r.kind = "raise" THEN FrameReturn(f, ExceptionEnvelope)
    ELSE IF StartRejected(r) THEN FrameReturn(f, StartFailedEnvelope(r))
    ELSE IF ~r.json THEN FrameReturn(f, ExceptionEnvelope)
    ELSE IF ~IdTruthy(r.id)
    THEN FrameReturn([f EXCEPT !.search_id = r.id], NoSearchIdEnvelope(r))
    ELSE [f EXCEPT !.search_id = r.id, !.pc = "await_poll", !.polls = 1,
                   !.sent = PollRequest(f.params, r.id, f.cookies)]

\* the end of an iteration that did not break
FrameEndOfIteration(f) ==
    IF HasNextAttempt(f.attempt)
    THEN [f EXCEPT !.attempt = f.attempt + 1, !.pc = "await_poll",
                   !.polls = f.polls + 1,
                   !.sent = PollRequest(f.params, f.search_id, f.cookies)]
    ELSE FrameReturn(f, AfterLoop(f.search_id, f.params.pattern, f.torrents,
                                  f.status, f.params.max_size_gb))

\* the response r of the poll request of f.attempt arrives
FramePoll(f, r) ==
    IF r.kind = "raise" \/ (~PollRejected(r) /\ ~r.json)
    THEN FrameReturn(f, ExceptionEnvelope)
    ELSE IF PollRejected(r) THEN FrameReturn(f, PollFailedEnvelope(r))
    ELSE LET g == [f EXCEPT !.status = r.status,
                            !.torrents = PageTorrents(f.torrents, r)]
         IN  IF IsStopped(g.status) \/ EarlyAccept(g.torrents, g.attempt)
             THEN FrameReturn(g, AfterLoop(g.search_id, g.params.pattern,
                                           g.torrents, g.status,
                                           g.params.max_size_gb))
             ELSE IF ShouldSleep(g.attempt)
             THEN [g EXCEPT !.pc = "sleeping", !.sleeps = g.sleeps + 1]
             ELSE FrameEndOfIteration(g)

\* one step of a call: what it does next, given what it was waiting for
FrameStep(f, r) ==
    CASE f.pc = "start" -> FrameCall(f)
      [] f.pc = "await_login" /\ r.kind = "raise" -> FrameLogin(f, r)
      [] f.pc = "await_login" /\ "cookies" \in DOMAIN r -> FrameLogin(f, r)
      [] f.pc = "await_start" /\ r.kind = "raise" -> FrameStart(f, r)
      [] f.pc = "await_start" /\ "id" \in DOMAIN r -> FrameStart(f, r)
      [] f.pc = "await_poll" /\ r.kind = "raise" -> FramePoll(f, r)
      [] f.pc = "await_poll" /\ "status" \in DOMAIN r -> FramePoll(f, r)
      [] f.pc = "sleeping" -> FrameEndOfIteration(f)
      [] OTHER -> f

\* mutant of FrameOf: every call works on the variables of the first call
FrameOf_Shared(op) == 1

\* the variables a call reads and writes are the locals of its own frame
FrameOf(op) == op

(* ------------------------------------------------------------------ *)
(* The one-request operations: login, then one command                   *)
(* ------------------------------------------------------------------ *)

\* the most file paths one add query lists
MaxFiles == 2

\* every public function of the module but search_torrents_api
OneShotOps ==
    {"add_torrent_api", "delete_torrent_api", "pause_torrent_api",
     "resume_torrent_api", "get_torrent_trackers_urls",
     "set_global_download_limit_api", "set_global_upload_limit_api",
     "get_application_version_api", "set_file_priority_api",
     "set_torrent_download_limit_api", "set_torrent_upload_limit_api",
     "add_trackers_to_torrent_api", "add_torrent_tags_api",
     "get_torrent_list_api"}

\* the path each function posts to or gets from
ShotEndpoint(op) ==
    CASE op = "add_torrent_api" -> "torrents/add"
      [] op = "delete_torrent_api" -> "torrents/delete"
      [] op = "pause_torrent_api" -> "torrents/stop"
      [] op = "resume_torrent_api" -> "torrents/start"
      [] op = "get_torrent_trackers_urls" -> "torrents/trackers"
      [] op = "set_global_download_limit_api" -> "transfer/setDownloadLimit"
      [] op = "set_global_upload_limit_api" -> "transfer/setUploadLimit"
      [] op = "get_application_version_api" -> "app/version"
      [] op = "set_file_priority_api" -> "torrents/filePrio"
      [] op = "set_torrent_download_limit_api" -> "torrents/setDownloadLimit"
      [] op = "set_torrent_upload_limit_api" -> "torrents/setUploadLimit"
      [] op = "add_trackers_to_torrent_api" -> "torrents/addTrackers"
      [] op = "add_torrent_tags_api" -> "torrents/addTags"
      [] op = "get_torrent_list_api" -> "torrents/info"

\* the functions that parse the body of a 200 response as JSON
ParsesBody(op) == op \in {"get_torrent_trackers_urls", "get_torrent_list_api"}

\* a listed path: no such file, a file that cannot be read, a file read
FileStates == {"missing", "unreadable", "readable"}

\* the query of add_torrent_api: JSON that is neither a list nor a dict with
\* file_paths, or the paths it lists (a text that is not JSON is one path)
AddQueries ==
    {[kind |-> "unrecognized", files |-> <<>>]}
        \cup [kind : {"paths"}, files : SeqsUpTo(FileStates, MaxFiles)]

NoQuery == [kind |-> "none", files |-> <<>>]

ShotQueries(op) == IF op = "add_torrent_api" THEN AddQueries ELSE {NoQuery}

\* the responses to a command request
CommandResponses ==
    [kind : {"http"}, code : StatusCodes \cup {415}, json : BOOLEAN]
        \cup {TransportError}

\* what the functions return
LoginFailedMessage == [kind |-> "Login failed, unable to get SID"]

SuccessMessage(op) == [kind |-> "success", op |-> op]

FailureMessage(op, code) == [kind |-> "failed: status code", op |-> op, code |-> code]

ErrorMessage == [kind |-> "Error: str(e)"]

UnrecognizedMessage == [kind |-> "Error: JSON format not recognized"]

NoPathMessage == [kind |-> "Error: No torrent file path provided"]

JoinedMessage(lines) == [kind |-> "lines", lines |-> lines]

\* the line add_torrent_api appends for a file it did not send
SkippedLine(f) ==
    IF f = "missing" THEN [kind |-> "File does not exist"]
    ELSE [kind |-> "Error reading file"]

\* the line add_torrent_api appends for the response to one file
AddedLine(code) ==
    IF code = 200 THEN [kind |-> "Successfully added torrent file"]
    ELSE IF code = 415 THEN [kind |-> "Invalid torrent file"]
    ELSE [kind |-> "Failed to add torrent file: status code", code |-> code]

\* the local state of one call of a one-request function
ShotInit(op, q) ==
    [op |-> op, query |-> q, pc |-> "start", cookies |-> NoneCookies,
     idx |-> 1, lines |-> <<>>, requests |-> <<>>, answers |-> <<>>,
     login |-> NoResponse, ret |-> NotReturned]

ShotReturn(s, m) == [s EXCEPT !.pc = "returned", !.ret = m]

\* mutant of LoginGate: the function goes on without cookies
LoginGate_Open(c) == c # c

\* if not cookies: return "Login failed, unable to get SID"
LoginGate(c) == ~CookiesTruthy(c)

\* the loop of add_torrent_api from file idx on: files that do not exist or
\* cannot be read get a line, the next file read is posted
RECURSIVE AddLoop(_)
AddLoop(s) ==
    IF s.idx > Len(s.query.files) THEN ShotReturn(s, JoinedMessage(s.lines))
    ELSE IF s.query.files[s.idx] # "readable"
    THEN AddLoop([s EXCEPT !.idx = s.idx + 1,
                           !.lines = Append(s.lines,
                                            SkippedLine(s.query.files[s.idx]))])
    ELSE [s EXCEPT !.pc = "await_command",
                   !.requests = Append(s.requests, ShotEndpoint(s.op))]

\* what a function does once it holds cookies, up to its command request
AfterLogin(s) ==
    IF s.op # "add_torrent_api"
    THEN [s EXCEPT !.pc = "await_command",
                   !.requests = Append(s.requests, ShotEndpoint(s.op))]
    ELSE IF s.query.kind = "unrecognized" THEN ShotReturn(s, UnrecognizedMessage)
    ELSE IF s.query.files = <<>> THEN ShotReturn(s, NoPathMessage)
    ELSE AddLoop(s)

\* the login response r arrives; the login is outside the try block
ShotLogin(s, r) ==
    LET t == [s EXCEPT !.login = r]
    IN  IF r.kind = "raise" THEN [t EXCEPT !.pc = "raised"]
        ELSE LET c == login_to_qbittorrent(r)
             IN  IF LoginGate(c)
                 THEN ShotReturn([t EXCEPT !.cookies = c], LoginFailedMessage)
                 ELSE AfterLogin([t EXCEPT !.cookies = c])

\* the response r to the command request arrives
ShotCommand(s, r) ==
    LET t == [s EXCEPT !.answers = Append(s.answers, r)]
    IN  IF r.kind = "raise" THEN ShotReturn(t, ErrorMessage)
        ELSE IF s.op = "add_torrent_api"
        THEN AddLoop([t EXCEPT !.idx = s.idx + 1,
                               !.lines = Append(s.lines, AddedLine(r.code))])
        ELSE IF r.code # HTTP_OK THEN ShotReturn(t, FailureMessage(s.op, r.code))
        ELSE IF ParsesBody(s.op) /\ ~r.json THEN ShotReturn(t, ErrorMessage)
        ELSE ShotReturn(t, SuccessMessage(s.op))

(* ------------------------------------------------------------------ *)
(* State                                                                *)
(* ------------------------------------------------------------------ *)

VARIABLES
    pc,         \* where the coroutine stands: "start", "await_login",
                \* "await_start", "await_poll", "sleeping", "returned", "raised"
    params,     \* the arguments of the call
    cookies,    \* local variable cookies
    search_id,  \* local variable search_id
    attempt,    \* loop variable attempt
    status,     \* local variable status
    torrents,   \* local variable torrents
    ret,        \* the value returned, NotReturned before the return
    requests,   \* every request issued so far, in order
    sleeps,     \* how many times asyncio.sleep was awaited
    received,   \* how many awaited requests have returned or raised
    lastLogin,  \* the response of the login request
    lastStart,  \* the response of the search start request
    lastPoll,   \* the response of the latest poll request
    loopExit,   \* how the polling loop was left
    history,    \* what held of every poll response so far
    frames,     \* concurrent calls: the local variables of each call
    alone,      \* each concurrent call run alone on the responses it got
    shot        \* one call of a one-request function

vars ==
    <<pc, params, cookies, search_id, attempt, status, torrents, ret,
      requests, sleeps, received, lastLogin, lastStart, lastPoll, loopExit,
      history, frames, alone, shot>>

\* the variables of the model of one call, and those of concurrent calls
oneVars ==
    <<pc, params, cookies, search_id, attempt, status, torrents, ret,
      requests, sleeps, received, lastLogin, lastStart, lastPoll, loopExit,
      history>>

concVars == <<frames, alone>>

shotVars == <<shot>>

NumRequests(endpoint) ==
    Cardinality({i \in DOMAIN requests : requests[i].endpoint = endpoint})

NumPolls == NumRequests("search/results")

\* history of the poll responses: each flag is about all responses so far
InitHistory ==
    [all2xxRunningNonEmpty |-> TRUE,
     all2xxRunningEmpty |-> TRUE,
     allOkRunningNonEmpty |-> TRUE,
     allOkRunningEmpty |-> TRUE,
     seenNonEmptyPage |-> FALSE]

NextHistory(h, r) ==
    LET http == r.kind = "http"
        body == http /\ r.json
        running == body /\ r.status = "Running"
    IN  [all2xxRunningNonEmpty |->
             h.all2xxRunningNonEmpty /\ running /\ Is2xx(r.code) /\ r.results # <<>>,
         all2xxRunningEmpty |->
             h.all2xxRunningEmpty /\ running /\ Is2xx(r.code) /\ r.results = <<>>,
         allOkRunningNonEmpty |->
             h.allOkRunningNonEmpty /\ running /\ r.code = 200 /\ r.results # <<>>,
         allOkRunningEmpty |->
             h.allOkRunningEmpty /\ running /\ r.code = 200 /\ r.results = <<>>,
         seenNonEmptyPage |->
             h.seenNonEmptyPage \/ (body /\ r.code = 200 /\ r.results # <<>>)]

Init ==
    /\ pc = "start"
    /\ params \in Params
    /\ cookies = NoneCookies
    /\ search_id = NoneId
    /\ attempt = 0
    /\ status = NoStatus
    /\ torrents = <<>>
    /\ ret = NotReturned
    /\ requests = <<>>
    /\ sleeps = 0
    /\ received = 0
    /\ lastLogin = NoResponse
    /\ lastStart = NoResponse
    /\ lastPoll = NoResponse
    /\ loopExit = "none"
    /\ history = InitHistory
    /\ frames = [op \in Ops |-> FrameInit(OpParams(op))]
    /\ alone = [op \in Ops |-> FrameInit(OpParams(op))]
    /\ shot = ShotInit("get_application_version_api", NoQuery)

\* concurrent calls: every call is about to start
InitConc ==
    /\ pc = "start"
    /\ params = OpParams(1)
    /\ cookies = NoneCookies
    /\ search_id = NoneId
    /\ attempt = 0
    /\ status = NoStatus
    /\ torrents = <<>>
    /\ ret = NotReturned
    /\ requests = <<>>
    /\ sleeps = 0
    /\ received = 0
    /\ lastLogin = NoResponse
    /\ lastStart = NoResponse
    /\ lastPoll = NoResponse
    /\ loopExit = "none"
    /\ history = InitHistory
    /\ frames = [op \in Ops |-> FrameInit(OpParams(op))]
    /\ alone = [op \in Ops |-> FrameInit(OpParams(op))]
    /\ shot = ShotInit("get_application_version_api", NoQuery)

(* ------------------------------------------------------------------ *)
(* Steps                                                                *)
(* ------------------------------------------------------------------ *)

\* return json.dumps(e)
Return(e) ==
    /\ pc' = "returned"
    /\ ret' = e

\* the call: login_to_qbittorrent issues the login request
Call ==
    /\ pc = "start"
    /\ UNCHANGED <<concVars, shotVars>>
    /\ requests' = Append(requests, LoginRequest(params))
    /\ pc' = "await_login"
    /\ UNCHANGED <<params, cookies, search_id, attempt, status, torrents, ret,
                   sleeps, received, lastLogin, lastStart, lastPoll, loopExit,
                   history>>

\* the login response arrives; the login is outside the try block, so an
\* exception of the request leaves search_torrents_api
LoginResponse ==
    /\ pc = "await_login"
    /\ UNCHANGED <<concVars, shotVars>>
    /\ \E r \in LoginResponses :
        /\ lastLogin' = r
        /\ received' = received + 1
        /\ IF r.kind = "raise"
           THEN /\ pc' = "raised"
                /\ UNCHANGED <<cookies, ret, requests>>
           ELSE /\ cookies' = login_to_qbittorrent(r)
                /\ IF ~CookiesTruthy(cookies')
                   THEN /\ Return(LoginFailedEnvelope)
                        /\ UNCHANGED requests
                   ELSE /\ requests' = Append(requests, StartRequest(params, cookies'))
                        /\ pc' = "await_start"
                        /\ UNCHANGED ret
    /\ UNCHANGED <<params, search_id, attempt, status, torrents, sleeps,
                   lastStart, lastPoll, loopExit, history>>

\* the search start response arrives
StartResponse ==
    /\ pc = "await_start"
    /\ UNCHANGED <<concVars, shotVars>>
    /\ \E r \in StartResponses :
        /\ lastStart' = r
        /\ received' = received + 1
        /\ IF r.kind = "raise"
           THEN /\ Return(ExceptionEnvelope)
                /\ UNCHANGED <<search_id, requests>>
           ELSE IF StartRejected(r)
           THEN /\ Return(StartFailedEnvelope(r))
                /\ UNCHANGED <<search_id, requests>>
           ELSE IF ~r.json
           THEN /\ Return(ExceptionEnvelope)
                /\ UNCHANGED <<search_id, requests>>
           ELSE /\ search_id' = r.id
                /\ IF ~IdTruthy(r.id)
                   THEN /\ Return(NoSearchIdEnvelope(r))
                        /\ UNCHANGED requests
                   ELSE /\ requests' = Append(requests, PollRequest(params, r.id, cookies))
                        /\ pc' = "await_poll"
                        /\ UNCHANGED ret
    /\ UNCHANGED <<params, cookies, attempt, status, torrents, sleeps,
                   lastLogin, lastPoll, loopExit, history>>

\* the end of one iteration of the loop that did not break: the next
\* attempt issues its request, or the loop is over
EndOfIteration(tor, st) ==
    IF HasNextAttempt(attempt)
    THEN /\ attempt' = attempt + 1
         /\ requests' = Append(requests, PollRequest(params, search_id, cookies))
         /\ pc' = "await_poll"
         /\ UNCHANGED <<ret, loopExit>>
    ELSE /\ Return(AfterLoop(search_id, params.pattern, tor, st, params.max_size_gb))
         /\ loopExit' = "exhausted"
         /\ UNCHANGED <<attempt, requests>>

\* the response of poll request number attempt arrives
PollResponse ==
    /\ pc = "await_poll"
    /\ UNCHANGED <<concVars, shotVars>>
    /\ \E r \in PollResponses :
        /\ lastPoll' = r
        /\ received' = received + 1
        /\ history' = NextHistory(history, r)
        /\ IF r.kind = "raise" \/ (~PollRejected(r) /\ ~r.json)
           THEN /\ Return(ExceptionEnvelope)
                /\ loopExit' = "exception"
                /\ UNCHANGED <<status, torrents, attempt, requests, sleeps>>
           ELSE IF PollRejected(r)
           THEN /\ Return(PollFailedEnvelope(r))
                /\ loopExit' = "poll_failed"
                /\ UNCHANGED <<status, torrents, attempt, requests, sleeps>>
           ELSE /\ status' = r.status
                /\ torrents' = PageTorrents(torrents, r)
                /\ IF IsStopped(r.status)
                   THEN /\ Return(AfterLoop(search_id, params.pattern, torrents',
                                            r.status, params.max_size_gb))
                        /\ loopExit' = "stopped"
                        /\ UNCHANGED <<attempt, requests, sleeps>>
                   ELSE IF EarlyAccept(torrents', attempt)
                   THEN /\ Return(AfterLoop(search_id, params.pattern, torrents',
                                            r.status, params.max_size_gb))
                        /\ loopExit' = "early"
                        /\ UNCHANGED <<attempt, requests, sleeps>>
                   ELSE IF ShouldSleep(attempt)
                   THEN /\ pc' = "sleeping"
                        /\ sleeps' = sleeps + 1
                        /\ UNCHANGED <<ret, loopExit, attempt, requests>>
                   ELSE /\ EndOfIteration(torrents', r.status)
                        /\ UNCHANGED sleeps
    /\ UNCHANGED <<params, cookies, search_id, lastLogin, lastStart>>

\* asyncio.sleep returns
SleepDone ==
    /\ pc = "sleeping"
    /\ UNCHANGED <<concVars, shotVars>>
    /\ EndOfIteration(torrents, status)
    /\ UNCHANGED <<params, cookies, search_id, status, torrents, sleeps,
                   received, lastLogin, lastStart, lastPoll, history>>

Next == Call \/ LoginResponse \/ StartResponse \/ PollResponse \/ SleepDone

Spec == Init /\ [][Next]_vars

\* the event loop runs the call op up to its next suspension point, on the
\* response r of what it was waiting for; alone follows the same call as if
\* it were the only one
Resume(op, r) ==
    /\ frames' = [frames EXCEPT ![FrameOf(op)] = FrameStep(@, r)]
    /\ alone' = [alone EXCEPT ![op] = FrameStep(@, r)]
    /\ UNCHANGED <<oneVars, shotVars>>

ConcCall(op) ==
    /\ frames[FrameOf(op)].pc = "start"
    /\ Resume(op, NoResponse)

ConcLoginResponse(op) ==
    /\ frames[FrameOf(op)].pc = "await_login"
    /\ \E r \in OpLoginResponses(op) : Resume(op, r)

ConcStartResponse(op) ==
    /\ frames[FrameOf(op)].pc = "await_start"
    /\ \E r \in OpStartResponses(op) : Resume(op, r)

ConcPollResponse(op) ==
    /\ frames[FrameOf(op)].pc = "await_poll"
    /\ \E r \in OpPollResponses(op) : Resume(op, r)

ConcSleepDone(op) ==
    /\ frames[FrameOf(op)].pc = "sleeping"
    /\ Resume(op, NoResponse)

ConcNext ==
    \/ \E op \in Ops : ConcCall(op)
    \/ \E op \in Ops : ConcLoginResponse(op)
    \/ \E op \in Ops : ConcStartResponse(op)
    \/ \E op \in Ops : ConcPollResponse(op)
    \/ \E op \in Ops : ConcSleepDone(op)

\* two calls of search_torrents_api interleaved at their suspension points
SpecConc == InitConc /\ [][ConcNext]_vars

\* one call of a one-request function, with any arguments
InitShot ==
    /\ pc = "start"
    /\ params = OpParams(1)
    /\ cookies = NoneCookies
    /\ search_id = NoneId
    /\ attempt = 0
    /\ status = NoStatus
    /\ torrents = <<>>
    /\ ret = NotReturned
    /\ requests = <<>>
    /\ sleeps = 0
    /\ received = 0
    /\ lastLogin = NoResponse
    /\ lastStart = NoResponse
    /\ lastPoll = NoResponse
    /\ loopExit = "none"
    /\ history = InitHistory
    /\ frames = [op \in Ops |-> FrameInit(OpParams(op))]
    /\ alone = [op \in Ops |-> FrameInit(OpParams(op))]
    /\ shot \in {ShotInit(op, q) : op \in OneShotOps, q \in AddQueries \cup {NoQuery}}
    /\ shot.query \in ShotQueries(shot.op)

\* the call: login_to_qbittorrent issues the login request
ShotCall ==
    /\ shot.pc = "start"
    /\ shot' = [shot EXCEPT !.pc = "await_login",
                            !.requests = Append(shot.requests, "auth/login")]
    /\ UNCHANGED <<oneVars, concVars>>

ShotLoginResponse ==
    /\ shot.pc = "await_login"
    /\ \E r \in LoginResponses : shot' = ShotLogin(shot, r)
    /\ UNCHANGED <<oneVars, concVars>>

ShotCommandResponse ==
    /\ shot.pc = "await_command"
    /\ \E r \in CommandResponses : shot' = ShotCommand(shot, r)
    /\ UNCHANGED <<oneVars, concVars>>

ShotNext == ShotCall \/ ShotLoginResponse \/ ShotCommandResponse

SpecShot == InitShot /\ [][ShotNext]_vars

\* every awaited network call eventually returns or raises, and every
\* asyncio.sleep eventually returns: an enabled step is eventually taken
SpecLive == Init /\ [][Next]_vars /\ WF_vars(Next)

TypeOK ==
    /\ pc \in {"start", "await_login", "await_start", "await_poll",
               "sleeping", "returned", "raised"}
    /\ attempt \in 0..(SEARCH_MAX_RETRIES - 1)
    /\ sleeps \in 0..SEARCH_MAX_RETRIES
    /\ received \in 0..(SEARCH_MAX_RETRIES + 2)
    /\ torrents \in Pages
    /\ status \in Statuses

(* ------------------------------------------------------------------ *)
(* Vocabulary of the properties                                         *)
(* ------------------------------------------------------------------ *)

Returned == pc = "returned"

\* the text of an error envelope's message, without the status code in it
ErrorText(e) == e.error[1]

IsTimeoutError(e) == IsError(e) /\ ErrorText(e) = "search timed out, no results obtained"

IsPollFailure(e) ==
    IsError(e) /\ ErrorText(e) = "fetching search results failed: status code"

IsLoginFailure(e) == IsError(e) /\ ErrorText(e) = "login failed, no SID"

\* the latest poll response was read as a page (lines 749-751 ran on it)
PageRead == lastPoll.kind = "http" /\ lastPoll.code = 200 /\ lastPoll.json

\* the coroutine stands right after the response of poll number attempt
AfterPoll == pc \in {"sleeping", "returned"} /\ lastPoll.kind # "none"

LastRequest == requests[Len(requests)]

(* ------------------------------------------------------------------ *)
(* C1                                                                   *)
(* ------------------------------------------------------------------ *)

\* C1, first sentence: a page with a status other than Stopped makes the
\* loop leave through the early-acceptance break at attempt k exactly when
\* the page is non-empty and k >= 2.
C1_EarlyExitRule ==
    (AfterPoll /\ PageRead /\ lastPoll.status # "Stopped")
        => ((loopExit = "early" /\ Returned)
                <=> (lastPoll.results # <<>> /\ attempt >= 2))

\* C1, second sentence as written: if every poll returns a 2xx status with
\* status Running and a non-empty page, exactly 3 poll requests are issued
\* and a result envelope built from the third page is returned.
C1_EveryPoll2xxRunningNonEmpty ==
    (lastPoll.kind # "none" /\ history.all2xxRunningNonEmpty)
        => /\ NumPolls <= 3
           /\ NumPolls < 3 => ~Returned
           /\ Returned =>
                /\ NumPolls = 3
                /\ attempt = 2
                /\ IsResult(ret)
                /\ ret.total_results = Len(lastPoll.results)

\* C1: early acceptance ends polling at attempt k exactly when the page is
\* non-empty and k >= 2; with every poll returning 2xx, Running and a
\* non-empty page the operation issues exactly 3 polls and returns a result
\* envelope built from the third page.
C1_AsClaimed == C1_EarlyExitRule /\ C1_EveryPoll2xxRunningNonEmpty

\* C1 with "2xx" read as the one status the code accepts, 200: holds.
C1_With200 ==
    /\ C1_EarlyExitRule
    /\ (lastPoll.kind # "none" /\ history.allOkRunningNonEmpty)
          => /\ NumPolls <= 3
             /\ NumPolls < 3 => ~Returned
             /\ Returned =>
                  /\ NumPolls = 3
                  /\ attempt = 2
                  /\ IsResult(ret)
                  /\ ret.total_results = Len(lastPoll.results)

(* ------------------------------------------------------------------ *)
(* C2                                                                   *)
(* ------------------------------------------------------------------ *)

\* C2, first sentence: the timeout error is returned if and only if exactly
\* SEARCH_MAX_RETRIES polls were issued and the last page is empty with a
\* status other than Stopped.
C2_TimeoutIff ==
    Returned =>
        (IsTimeoutError(ret)
            <=> /\ NumPolls = SEARCH_MAX_RETRIES
                /\ PageRead
                /\ lastPoll.results = <<>>
                /\ lastPoll.status # "Stopped")

\* C2, second sentence as written: if every poll returns a 2xx status with
\* status Running and an empty page, exactly SEARCH_MAX_RETRIES polls are
\* made and the timeout error, with the job id and the last status, is
\* returned; it is not the poll failure error.
C2_EveryPoll2xxRunningEmpty ==
    (lastPoll.kind # "none" /\ history.all2xxRunningEmpty)
        => /\ NumPolls <= SEARCH_MAX_RETRIES
           /\ NumPolls < SEARCH_MAX_RETRIES => ~Returned
           /\ Returned =>
                /\ NumPolls = SEARCH_MAX_RETRIES
                /\ IsTimeoutError(ret)
                /\ ~IsPollFailure(ret)
                /\ ret.search_id = search_id
                /\ ret.status = "Running"

\* C2: the timeout error is returned iff SEARCH_MAX_RETRIES polls were
\* issued and the last page is empty and not Stopped; with every poll
\* returning 2xx, Running and an empty page the operation makes exactly
\* SEARCH_MAX_RETRIES polls and reports the timeout with job id and status.
C2_AsClaimed == C2_TimeoutIff /\ C2_EveryPoll2xxRunningEmpty

\* C2 with "2xx" read as the one status the code accepts, 200: holds.
C2_With200 ==
    /\ C2_TimeoutIff
    /\ (lastPoll.kind # "none" /\ history.allOkRunningEmpty)
          => /\ NumPolls <= SEARCH_MAX_RETRIES
             /\ NumPolls < SEARCH_MAX_RETRIES => ~Returned
             /\ Returned =>
                  /\ NumPolls = SEARCH_MAX_RETRIES
                  /\ IsTimeoutError(ret)
                  /\ ~IsPollFailure(ret)
                  /\ ret.search_id = search_id
                  /\ ret.status = "Running"

(* ------------------------------------------------------------------ *)
(* C3                                                                   *)
(* ------------------------------------------------------------------ *)

\* C3: whenever the status read from a poll response is Stopped, at any
\* attempt k, polling ends there: exactly k+1 polls, no delay and no request
\* after it, and a result envelope built from that page is returned, also
\* when the page is empty (then total_results = 0, filtered_results = 0,
\* results = [] and not the timeout error).
C3_HardStop ==
    status = "Stopped"
        => /\ Returned
           /\ PageRead /\ lastPoll.status = "Stopped"
           /\ torrents = lastPoll.results
           /\ NumPolls = attempt + 1
           /\ sleeps = attempt
           /\ LastRequest.endpoint = "search/results"
           /\ IsResult(ret) /\ ~IsError(ret)
           /\ ret.search_id = search_id
           /\ ret.total_results = Len(lastPoll.results)
           /\ \A i \in 1..Len(ret.results) :
                \E j \in 1..Len(lastPoll.results) : ret.results[i] = lastPoll.results[j]
           /\ lastPoll.results = <<>> =>
                /\ ret.total_results = 0
                /\ ret.filtered_results = 0
                /\ ret.results = <<>>

\* C3 witness: Stopped with an empty page on attempt 0, one poll, an envelope
C3_Witness ==
    /\ Returned /\ PageRead
    /\ lastPoll.status = "Stopped" /\ lastPoll.results = <<>>
    /\ attempt = 0 /\ NumPolls = 1
    /\ IsResult(ret) /\ ret.total_results = 0

(* ------------------------------------------------------------------ *)
(* C4                                                                   *)
(* ------------------------------------------------------------------ *)

\* C4: if the login request returns a non-2xx status, the operation returns
\* the authentication-failure error envelope and the login request is the
\* only request ever issued (no search start, no poll, no second login).
C4_AuthFailure ==
    (lastLogin.kind = "http" /\ ~Is2xx(lastLogin.code))
        => /\ Returned
           /\ IsLoginFailure(ret)
           /\ Len(requests) = 1
           /\ requests[1].endpoint = "auth/login"

\* C4 witness: a 403 login answer that carries a cookie, and the error returned
C4_Witness ==
    /\ lastLogin.kind = "http" /\ lastLogin.code = 403
    /\ lastLogin.cookies # {}
    /\ Returned /\ IsLoginFailure(ret)

(* ------------------------------------------------------------------ *)
(* C5                                                                   *)
(* ------------------------------------------------------------------ *)

\* C5: no failure leaves search_torrents_api as an exception: after a
\* transport-level error of the login request, of the search start request
\* or of a poll request the operation has returned an error envelope.
C5_AsClaimed ==
    /\ pc # "raised"
    /\ (lastLogin.kind = "raise" \/ lastStart.kind = "raise" \/ lastPoll.kind = "raise")
          => (Returned /\ IsError(ret))

\* C5 for the requests inside the try block (search start, polls, and their
\* bodies that fail to parse): these do end in an error envelope.
C5_InsideTry ==
    (\/ lastStart.kind = "raise"
     \/ lastPoll.kind = "raise"
     \/ (lastStart.kind = "http" /\ lastStart.code = 200 /\ ~lastStart.json)
     \/ (lastPoll.kind = "http" /\ lastPoll.code = 200 /\ ~lastPoll.json))
        => (Returned /\ IsError(ret))

(* ------------------------------------------------------------------ *)
(* C6                                                                   *)
(* ------------------------------------------------------------------ *)

KnownEndpoints == {"auth/login", "search/start", "search/results"}

\* C6: if the poll request of attempt k returns a non-2xx status, the
\* operation returns an error envelope after exactly k+1 polls: no delay
\* after the failed poll, no further poll, no job-cancel or other request,
\* and no result data, whatever pages earlier attempts returned.
C6_PollFailureAborts ==
    (lastPoll.kind = "http" /\ ~Is2xx(lastPoll.code))
        => /\ Returned
           /\ IsPollFailure(ret)
           /\ NumPolls = attempt + 1
           /\ sleeps = attempt
           /\ Len(requests) = attempt + 3
           /\ LastRequest.endpoint = "search/results"
           /\ \A i \in DOMAIN requests : requests[i].endpoint \in KnownEndpoints
           /\ DOMAIN ret = {"error", "response"}

\* C6 witness: a 500 on attempt 2 after non-empty pages on earlier attempts
C6_Witness ==
    /\ lastPoll.kind = "http" /\ lastPoll.code = 500
    /\ attempt = 2
    /\ history.seenNonEmptyPage
    /\ torrents # <<>>
    /\ Returned /\ IsPollFailure(ret)

(* ------------------------------------------------------------------ *)
(* C7                                                                   *)
(* ------------------------------------------------------------------ *)

\* C7: the error envelope returned when a poll request returns a non-2xx
\* status includes the job identifier obtained from the search start call
\* and the job status.
C7_AsClaimed ==
    (Returned /\ lastPoll.kind = "http" /\ ~Is2xx(lastPoll.code))
        => /\ IsError(ret)
           /\ "search_id" \in DOMAIN ret
           /\ ret.search_id = search_id
           /\ "status" \in DOMAIN ret

(* ------------------------------------------------------------------ *)
(* C8                                                                   *)
(* ------------------------------------------------------------------ *)

\* the messages a search start response with a non-2xx status can produce
NonSuccessStartMessages ==
    {<<"search start failed: status code", c>> : c \in {d \in StatusCodes : ~Is2xx(d)}}

StartNon2xx == lastStart.kind = "http" /\ ~Is2xx(lastStart.code)

\* a 2xx answer whose body has no id field (or is no JSON object at all)
Start2xxWithoutId ==
    /\ lastStart.kind = "http" /\ Is2xx(lastStart.code)
    /\ (~lastStart.json \/ lastStart.id.kind = "none")

SizeOrZero(t) == IF "fileSize" \in DOMAIN t THEN t.fileSize ELSE 0

SeedersOrZero(t) == IF "nbSeeders" \in DOMAIN t THEN t.nbSeeders ELSE 0

Smaller(a, b) == IF a < b THEN a ELSE b

\* C9: every result envelope returned satisfies filtered_results <=
\* total_results, len(results) <= min(filtered_results, 10), and results is
\* sorted non-increasing by nbSeeders (missing nbSeeders counted as 0).
C9_EnvelopeInvariant ==
    (Returned /\ IsResult(ret))
        => /\ ret.filtered_results <= ret.total_results
           /\ Len(ret.results) <= Smaller(ret.filtered_results, 10)
           /\ \A i \in 1..Len(ret.results) : \A j \in 1..Len(ret.results) :
                i < j => SeedersOrZero(ret.results[i]) >= SeedersOrZero(ret.results[j])

\* C9 witness: an envelope cut to 10 of more than 10 filtered records, whose
\* kept records do not all have the same seeder count
C9_Witness ==
    /\ Returned /\ IsResult(ret)
    /\ ret.filtered_results > 10
    /\ Len(ret.results) = 10
    /\ SeedersOrZero(ret.results[1]) > SeedersOrZero(ret.results[10])

(* ------------------------------------------------------------------ *)
(* C10                                                                  *)
(* ------------------------------------------------------------------ *)

\* the number of records of page R whose size, absent counted as 0, is at
\* most S
CountWithin(R, S) == Cardinality({i \in 1..Len(R) : SizeOrZero(R[i]) <= S})

\* C10: for the final page R and the size ceiling S = max_size_gb * 2^30,
\* total_results is the number of records of R and filtered_results is the
\* number of records of R with fileSize <= S, a record without fileSize
\* counting as fileSize 0.
C10_FilterCounts ==
    (Returned /\ IsResult(ret))
        => /\ PageRead
           /\ ret.total_results = Len(lastPoll.results)
           /\ ret.filtered_results =
                CountWithin(lastPoll.results, params.max_size_gb * 1024 * 1024 * 1024)

\* C10 witness: the ceiling is 0 and the final page holds a record
\* without fileSize (counted, as size 0) and a record above the ceiling
C10_Witness ==
    /\ Returned /\ IsResult(ret)
    /\ params.max_size_gb = 0
    /\ \E i \in 1..Len(lastPoll.results) : "fileSize" \notin DOMAIN lastPoll.results[i]
    /\ \E i \in 1..Len(lastPoll.results) :
          /\ "fileSize" \in DOMAIN lastPoll.results[i]
          /\ lastPoll.results[i].fileSize > 0
    /\ ret.total_results = 2
    /\ ret.filtered_results = 1

(* ------------------------------------------------------------------ *)
(* C11                                                                  *)
(* ------------------------------------------------------------------ *)

\* the positions of page R whose record passes the ceiling S
Admitted(R, S) == {i \in 1..Len(R) : SizeOrZero(R[i]) <= S}

\* how many admitted records stand before the record at position i in the
\* stable descending order: those with more seeders, and those with as many
\* seeders that come earlier in the page
RankOf(R, S, i) ==
    Cardinality({j \in Admitted(R, S) :
                    \/ SeedersOrZero(R[j]) > SeedersOrZero(R[i])
                    \/ (SeedersOrZero(R[j]) = SeedersOrZero(R[i]) /\ j < i)})

\* C11: the results list is the first min(10, n) records of the
\* size-filtered final page in descending nbSeeders order, equal nbSeeders
\* keeping their order of the page: the admitted record of rank r < 10
\* stands unmodified at position r + 1, so no admitted record left out has
\* more seeders than one kept; seeders 1..15 all admitted give 15, 14, .., 6.
C11_RankAndTop10 ==
    (Returned /\ IsResult(ret))
        => LET R == lastPoll.results
               S == params.max_size_gb * 1024 * 1024 * 1024
           IN  /\ Len(ret.results) = Smaller(10, Cardinality(Admitted(R, S)))
               /\ \A i \in Admitted(R, S) :
                    RankOf(R, S, i) < 10 => ret.results[RankOf(R, S, i) + 1] = R[i]
               /\ \A i \in Admitted(R, S) : \A k \in 1..Len(ret.results) :
                    RankOf(R, S, i) >= 10
                        => SeedersOrZero(R[i]) <= SeedersOrZero(ret.results[k])
               /\ (R = [i \in 1..15 |-> [fileSize |-> 0, nbSeeders |-> i]]
                     /\ params.max_size_gb >= 0)
                    => /\ ret.filtered_results = 15
                       /\ [k \in 1..10 |-> ret.results[k].nbSeeders]
                            = [k \in 1..10 |-> 16 - k]

\* C11 witness: more than 10 admitted records, cut to 10, and two different
\* kept records with the same seeder count
C11_Witness ==
    /\ Returned /\ IsResult(ret)
    /\ ret.filtered_results > 10
    /\ Len(ret.results) = 10
    /\ \E i \in 1..10 : \E j \in 1..10 :
          /\ i < j
          /\ ret.results[i] # ret.results[j]
          /\ SeedersOrZero(ret.results[i]) = SeedersOrZero(ret.results[j])

\* C11 witness of the example: the page with seeders 1..15 was shaped
C11_FifteenShaped ==
    /\ Returned /\ IsResult(ret)
    /\ ret.total_results = 15 /\ ret.filtered_results = 15

(* ------------------------------------------------------------------ *)
(* C12                                                                  *)
(* ------------------------------------------------------------------ *)

Terminated == pc \in {"returned", "raised"}

TerminalOutcomes ==
    {"result envelope", "authentication failure", "launch failure",
     "poll failure", "poll timeout", "transport error"}

\* the terminal outcome a terminated operation has reached
OutcomeKind ==
    CASE pc = "raised" -> "transport error"
      [] pc = "returned" /\ IsResult(ret) -> "result envelope"
      [] pc = "returned" /\ IsLoginFailure(ret) -> "authentication failure"
      [] pc = "returned" /\ IsError(ret)
            /\ ErrorText(ret) \in {"search start failed: status code",
                                   "no search id obtained"} -> "launch failure"
      [] pc = "returned" /\ IsPollFailure(ret) -> "poll failure"
      [] pc = "returned" /\ IsTimeoutError(ret) -> "poll timeout"
      [] pc = "returned" /\ IsError(ret)
            /\ ErrorText(ret) = "error: str(e)" -> "transport error"
      [] OTHER -> "none"

\* C12: if every network call and every delay eventually returns, the
\* operation eventually terminates, in one of the six terminal outcomes and
\* in no state it leaves again, after at most one login request, one search
\* start request and SEARCH_MAX_RETRIES poll requests.
C12_Termination ==
    /\ <>Terminated
    /\ [](Terminated => OutcomeKind \in TerminalOutcomes)
    /\ [](/\ NumRequests("auth/login") <= 1
          /\ NumRequests("search/start") <= 1
          /\ NumPolls <= SEARCH_MAX_RETRIES)
    /\ [][~Terminated]_vars

\* C12 witness: the longest run, SEARCH_MAX_RETRIES polls ending in the timeout
C12_Witness ==
    /\ Terminated
    /\ NumPolls = SEARCH_MAX_RETRIES
    /\ OutcomeKind = "poll timeout"

(* ------------------------------------------------------------------ *)
(* C14                                                                  *)
(* ------------------------------------------------------------------ *)

\* C14: whenever the login request returns a 2xx status, authentication
\* succeeds and the search start request is issued, whatever else the login
\* response holds (no cookie set, a 2xx status other than 200).
C14_AsClaimed ==
    (lastLogin.kind = "http" /\ Is2xx(lastLogin.code))
        => /\ ~(Returned /\ IsLoginFailure(ret))
           /\ Len(requests) >= 2
           /\ requests[2].endpoint = "search/start"

\* what the code does instead: the search start request is issued exactly
\* when the login status is 200 and the response set at least one cookie
C14_AsCoded ==
    lastLogin.kind = "http"
        => IF lastLogin.code = 200 /\ lastLogin.cookies # {}
           THEN Len(requests) >= 2 /\ requests[2].endpoint = "search/start"
           ELSE Returned /\ IsLoginFailure(ret) /\ Len(requests) = 1

(* ------------------------------------------------------------------ *)
(* C15                                                                  *)
(* ------------------------------------------------------------------ *)

\* C15: with the budget of SEARCH_MAX_RETRIES = 10 attempts the loop never
\* runs out of attempts while the last page is non-empty and its status is
\* not Stopped; a run that ends with a non-empty page and a status other
\* than Stopped left the loop through the early-acceptance break.
C15_NoExhaustionWithResults ==
    /\ loopExit = "exhausted" => (PageRead /\ lastPoll.results = <<>>)
    /\ (Returned /\ PageRead /\ lastPoll.results # <<>> /\ lastPoll.status # "Stopped")
          => loopExit = "early"

\* C15 witness: a non-empty Running page on the last allowed attempt, taken
\* by the early-acceptance break
C15_Witness ==
    /\ Returned /\ PageRead
    /\ attempt = SEARCH_MAX_RETRIES - 1
    /\ lastPoll.results # <<>> /\ lastPoll.status = "Running"
    /\ loopExit = "early"
    /\ IsResult(ret)

(* ------------------------------------------------------------------ *)
(* C16                                                                  *)
(* ------------------------------------------------------------------ *)

\* C16: each page read replaces the results held so far; results of earlier
\* polls are never accumulated. After a page is read the held results are
\* exactly that page; when the loop is left, the timeout error is returned
\* exactly when the last page was empty and not Stopped, and a result
\* envelope counts and ranks the records of the last page only.
C16_PagesReplace ==
    PageRead =>
        /\ torrents = lastPoll.results
        /\ (Returned /\ loopExit \in {"stopped", "early", "exhausted"}) =>
             /\ IsTimeoutError(ret) <=>
                   (lastPoll.results = <<>> /\ lastPoll.status # "Stopped")
             /\ IsResult(ret) =>
                   /\ ret.total_results = Len(lastPoll.results)
                   /\ ret.filtered_results =
                        CountWithin(lastPoll.results,
                                    params.max_size_gb * 1024 * 1024 * 1024)
                   /\ \A i \in 1..Len(ret.results) :
                        \E j \in 1..Len(lastPoll.results) :
                            ret.results[i] = lastPoll.results[j]

\* C16 witness: an earlier page held records, the last page is empty and
\* Running on the last attempt, and the timeout error is returned
C16_Witness ==
    /\ Returned /\ PageRead
    /\ history.seenNonEmptyPage
    /\ lastPoll.results = <<>> /\ lastPoll.status = "Running"
    /\ loopExit = "exhausted"
    /\ IsTimeoutError(ret)

(* ------------------------------------------------------------------ *)
(* C17                                                                  *)
(* ------------------------------------------------------------------ *)

\* requests issued whose response has not been received yet
InFlight == Len(requests) - received

\* the response r of attempt k ends polling: failure, exception, Stopped,
\* or a non-empty page from the third attempt on
EndsPolling(r, k) ==
    \/ r.kind = "raise"
    \/ r.code # 200
    \/ ~r.json
    \/ r.status = "Stopped"
    \/ (r.results # <<>> /\ k >= 2)

\* a step that issues a poll request after the first one
IssuesLaterPoll == NumPolls >= 1 /\ NumPolls' = NumPolls + 1

\* a step that receives the response of the poll request of attempt
ReceivesPoll == pc = "await_poll" /\ received' = received + 1

\* C17: at most one request is in flight at any time and never more than
\* SEARCH_MAX_RETRIES poll requests are issued; poll attempt i+1 is issued
\* only by the step that ends the delay taken after the response of
\* attempt i; a delay is taken after attempt i exactly when its response did
\* not end polling and i < SEARCH_MAX_RETRIES - 1.
C17_SequentialBoundedPolling ==
    /\ [](/\ InFlight \in {0, 1}
          /\ InFlight = 1 <=> pc \in {"await_login", "await_start", "await_poll"}
          /\ NumPolls <= SEARCH_MAX_RETRIES
          /\ sleeps <= SEARCH_MAX_RETRIES - 1)
    /\ [][IssuesLaterPoll =>
             /\ pc = "sleeping" /\ InFlight = 0
             /\ received = 2 + NumPolls
             /\ attempt' = attempt + 1 /\ attempt' = NumPolls
             /\ sleeps = NumPolls]_vars
    /\ [][ReceivesPoll =>
             /\ sleeps' \in {sleeps, sleeps + 1}
             /\ (sleeps' = sleeps + 1) <=> (pc' = "sleeping")
             /\ (sleeps' = sleeps + 1) <=>
                   (/\ ~EndsPolling(lastPoll', attempt)
                    /\ attempt < SEARCH_MAX_RETRIES - 1)
             /\ NumPolls' = NumPolls]_vars
    /\ [][pc # "await_poll" => sleeps' = sleeps]_vars

\* C17 witness: ten polls were issued one after the other, a delay was taken
\* after each of the first nine and none after the last allowed attempt
C17_Witness ==
    /\ Returned /\ loopExit = "exhausted"
    /\ NumPolls = SEARCH_MAX_RETRIES
    /\ received = SEARCH_MAX_RETRIES + 2
    /\ sleeps = SEARCH_MAX_RETRIES - 1
    /\ InFlight = 0

(* ------------------------------------------------------------------ *)
(* C18                                                                  *)
(* ------------------------------------------------------------------ *)

\* the search start response was accepted and parsed (lines 715-716 ran)
StartParsed == lastStart.kind = "http" /\ lastStart.code = 200 /\ lastStart.json

IsNoSearchId(e) == IsError(e) /\ ErrorText(e) = "no search id obtained"

\* C18: after an accepted search start response the identifier-missing
\* failure is returned only when the response has no identifier field; for
\* every identifier present, string or integer, the integer 0 included, the
\* first poll request is issued and carries that identifier.
C18_AsClaimed ==
    StartParsed =>
        IF lastStart.id.kind = "none"
        THEN Returned /\ IsNoSearchId(ret) /\ NumPolls = 0
        ELSE /\ ~(Returned /\ IsNoSearchId(ret))
             /\ NumPolls >= 1
             /\ requests[3].endpoint = "search/results"
             /\ requests[3].data.id = lastStart.id

\* what the code does: `if not search_id` also rejects the identifiers that
\* are falsy, the integer 0 and the empty string
C18_AsCoded ==
    StartParsed =>
        IF ~IdTruthy(lastStart.id)
        THEN Returned /\ IsNoSearchId(ret) /\ NumPolls = 0
        ELSE /\ ~(Returned /\ IsNoSearchId(ret))
             /\ NumPolls >= 1
             /\ requests[3].endpoint = "search/results"
             /\ requests[3].data.id = lastStart.id

(* ------------------------------------------------------------------ *)
(* C19                                                                  *)
(* ------------------------------------------------------------------ *)

\* the login response was accepted: status 200 and a cookie was set
LoginAccepted ==
    lastLogin.kind = "http" /\ lastLogin.code = 200 /\ lastLogin.cookies # {}

\* C19: the login request is the first request and the only login; the
\* search start request is issued once, second, and only after an accepted
\* login, with the cookies of that login; every poll request comes after an
\* accepted search start that returned an identifier, and carries that
\* identifier, the caller's limit and offset, and the cookies of this
\* operation's login.
C19_RequestOrdering ==
    /\ NumRequests("auth/login") = (IF pc = "start" THEN 0 ELSE 1)
    /\ Len(requests) >= 1 => requests[1] = LoginRequest(params)
    /\ NumRequests("search/start") = (IF LoginAccepted THEN 1 ELSE 0)
    /\ \A i \in DOMAIN requests :
         requests[i].endpoint = "search/start" =>
            /\ i = 2
            /\ LoginAccepted
            /\ requests[i].cookies = SomeCookies(lastLogin.cookies)
    /\ \A i \in DOMAIN requests :
         requests[i].endpoint = "search/results" =>
            /\ i >= 3
            /\ LoginAccepted
            /\ requests[2].endpoint = "search/start"
            /\ StartParsed /\ lastStart.id.kind # "none"
            /\ requests[i].data.id = lastStart.id
            /\ requests[i].data.limit = params.limit
            /\ requests[i].data.offset = params.offset
            /\ requests[i].cookies = SomeCookies(lastLogin.cookies)
    /\ \A i \in DOMAIN requests : requests[i].endpoint \in KnownEndpoints

\* C19 witness: a finished operation that issued login, search start and
\* several polls with the identifier "job-7"
C19_Witness ==
    /\ Returned /\ IsResult(ret)
    /\ NumPolls >= 3
    /\ lastStart.kind = "http" /\ lastStart.id = StrId("job-7")
    /\ requests[Len(requests)].data.id = StrId("job-7")

(* ------------------------------------------------------------------ *)
(* C20                                                                  *)
(* ------------------------------------------------------------------ *)

\* what the loop does after attempt k read a page with status Running:
\* accept early, take the delay, or run out of attempts
RunningDecision(k, nonEmpty) ==
    IF nonEmpty /\ k >= 2 THEN "early"
    ELSE IF k < SEARCH_MAX_RETRIES - 1 THEN "delay"
    ELSE "exhausted"

\* an envelope without the status text it echoes
EraseStatus(e) == [f \in DOMAIN e \ {"status"} |-> e[f]]

\* C20: after a page whose status is absent or any text other than Stopped,
\* the loop does what it does for status Running on the same page at the
\* same attempt: same decision (early acceptance, delay, exhaustion), same
\* numbers of polls and delays, and the same value returned up to the
\* status text echoed in the timeout error.
C20_UnknownIsRunning ==
    (AfterPoll /\ PageRead /\ lastPoll.status # "Stopped") =>
        LET nonEmpty == lastPoll.results # <<>>
            d == RunningDecision(attempt, nonEmpty)
        IN  /\ NumPolls = attempt + 1
            /\ sleeps = attempt + (IF d = "delay" THEN 1 ELSE 0)
            /\ (d = "delay") <=> (pc = "sleeping")
            /\ (d # "delay") =>
                 /\ Returned /\ loopExit = d
                 /\ OutcomeKind = IF nonEmpty THEN "result envelope"
                                  ELSE "poll timeout"
                 /\ EraseStatus(ret) =
                      EraseStatus(AfterLoop(search_id, params.pattern,
                                            lastPoll.results, "Running",
                                            params.max_size_gb))

\* C20 witness: every page carried no status or an unknown one, the last
\* one empty with the unknown status, and the operation timed out after
\* SEARCH_MAX_RETRIES polls
C20_Witness ==
    /\ Returned /\ PageRead
    /\ lastPoll.status = "Paused" /\ lastPoll.results = <<>>
    /\ NumPolls = SEARCH_MAX_RETRIES /\ sleeps = SEARCH_MAX_RETRIES - 1
    /\ IsTimeoutError(ret) /\ ret.status = "Paused"

(* ------------------------------------------------------------------ *)
(* C13                                                                  *)
(* ------------------------------------------------------------------ *)

\* the call op has returned or raised
OpDone(op) == frames[op].pc \in {"returned", "raised"}

SecondsSlept == sleeps * SEARCH_RETRY_DELAY_SECONDS

\* every poll so far returned an empty page with a status other than
\* Stopped, and the operation reported the timeout
ExhaustedEmpty ==
    /\ Returned /\ IsTimeoutError(ret)
    /\ ~history.seenNonEmptyPage

\* C21 as stated: on the exhaustion path the delay is waited once per
\* attempt, SEARCH_MAX_RETRIES delays in total (10 s), before the timeout
\* is reported.
C21_AsClaimed ==
    ExhaustedEmpty =>
        /\ NumPolls = SEARCH_MAX_RETRIES
        /\ sleeps = SEARCH_MAX_RETRIES
        /\ SecondsSlept >= 10

\* C21 amended: on the exhaustion path the delay is waited once between two
\* consecutive attempts and not after the last one, SEARCH_MAX_RETRIES - 1
\* delays in total (9 s), before the timeout is reported.
C21_DelaysBeforeTimeout ==
    ExhaustedEmpty =>
        /\ NumPolls = SEARCH_MAX_RETRIES
        /\ sleeps = SEARCH_MAX_RETRIES - 1
        /\ SecondsSlept = (SEARCH_MAX_RETRIES - 1) * SEARCH_RETRY_DELAY_SECONDS
        /\ loopExit = "exhausted"

\* C21 witness: ten polls all answered 200 with an empty Running page, then
\* the timeout
C21_Witness ==
    /\ ExhaustedEmpty
    /\ history.allOkRunningEmpty
    /\ lastPoll.status = "Running"
    /\ sleeps = 9

(* ------------------------------------------------------------------ *)
(* C23                                                                  *)
(* ------------------------------------------------------------------ *)

\* the positions of page R whose record has no fileSize field
Sizeless(R) == {i \in 1..Len(R) : "fileSize" \notin DOMAIN R[i]}

\* the records without fileSize among the records returned
SizelessReturned(e) ==
    Cardinality({i \in 1..Len(e.results) : "fileSize" \notin DOMAIN e.results[i]})

\* C23 as stated: for every ceiling, zero and negative ones included, every
\* record without fileSize passes the filter and is counted in
\* filtered_results.
C23_AsClaimed ==
    (Returned /\ IsResult(ret)) =>
        /\ \A i \in Sizeless(lastPoll.results) :
             PassesSizeFilter(lastPoll.results[i],
                              max_size_bytes(params.max_size_gb))
        /\ ret.filtered_results >= Cardinality(Sizeless(lastPoll.results))

\* C23 amended: a record without fileSize is filtered as a record of size
\* 0: it passes and is counted in filtered_results for every ceiling that
\* is zero or positive, and is dropped, like every other record, when the
\* ceiling is negative.
C23_SizelessCountsAsZero ==
    (Returned /\ IsResult(ret)) =>
        /\ \A i \in Sizeless(lastPoll.results) :
             PassesSizeFilter(lastPoll.results[i],
                              max_size_bytes(params.max_size_gb))
                <=> params.max_size_gb >= 0
        /\ IF params.max_size_gb >= 0
           THEN /\ ret.filtered_results >= Cardinality(Sizeless(lastPoll.results))
                /\ \/ SizelessReturned(ret) = Cardinality(Sizeless(lastPoll.results))
                   \/ Len(ret.results) = TopN
           ELSE ret.filtered_results = 0 /\ ret.results = <<>>

\* C23 witness: the ceiling is zero, the final page holds a record without
\* fileSize and a record above the ceiling, and the first one is returned
C23_Witness ==
    /\ Returned /\ IsResult(ret)
    /\ params.max_size_gb = 0
    /\ Len(lastPoll.results) = 2
    /\ Cardinality(Sizeless(lastPoll.results)) = 1
    /\ ret.filtered_results = 1
    /\ SizelessReturned(ret) = 1

(* ------------------------------------------------------------------ *)
(* C22                                                                  *)
(* ------------------------------------------------------------------ *)

ShotReturned == shot.pc = "returned"

\* the login request was answered, and login_to_qbittorrent gave cookies
ShotLoginAnswered == shot.login.kind = "http"

ShotLoginSucceeded ==
    ShotLoginAnswered /\ shot.login.code = 200 /\ shot.login.cookies # {}

\* the command requests issued so far: every request after the login
ShotCommands == SubSeq(shot.requests, 2, Len(shot.requests))

\* the listed files that exist
ExistingFiles ==
    {i \in 1..Len(shot.query.files) : shot.query.files[i] # "missing"}

\* the listed files that exist and were read
ReadableFiles ==
    {i \in 1..Len(shot.query.files) : shot.query.files[i] = "readable"}

\* reading every listed file that exists worked
AllRead == ReadableFiles = ExistingFiles

\* every command request issued was answered by a response with a readable
\* body: no request raised, no body failed to parse
AllAnswered ==
    \A i \in 1..Len(shot.answers) :
        /\ shot.answers[i].kind = "http"
        /\ (ParsesBody(shot.op) /\ shot.answers[i].code = 200) => shot.answers[i].json

====
